---------------------------- MODULE Spec2Model ----------------------------
(***************************************************************************)
(* A model of functions/detect.js: the onRequest handler that infers       *)
(* whether a domain is fronted by Cloudflare, and its helper cidrContains. *)
(*                                                                         *)
(* JavaScript strings are sequences of one-character strings.  A 32-bit    *)
(* integer (the operand or result of <<, >>>, ~ and &) is its four bytes,  *)
(* most significant first.  A JavaScript number that may be NaN is a       *)
(* record [nan, ...].                                                      *)
(***************************************************************************)
EXTENDS Integers, Sequences, FiniteSets, TLC

VARIABLES
    request,      \* the incoming request: its domain query parameter and its body
    pc,           \* where the handler is: a step about to run, or "<step>_wait" at its await
    domain,       \* const domain (line 5)
    bodyRead,     \* whether context.request.json() was called (line 5)
    aJson,        \* line 17
    ipv4,         \* line 18
    nsJson,       \* line 21
    nameservers,  \* line 22
    httpInfo,     \* lines 38-39
    cfV4txt,      \* line 42
    cfV6txt,      \* line 43
    response,     \* what onRequest settled with: a Response, or a rejection
    calls,        \* history: the outbound fetch calls issued, in order
    inflight,     \* the positions in calls of the fetches that have not settled
    replies,      \* history: how each settled fetch ended, in order
    probes,       \* history: what each tryFetch call returned, in order
    cidrCall      \* one call of cidrContains: its arguments and what it returned

(***************************************************************************)
(* Strings                                                                 *)
(***************************************************************************)
UpperChars == <<"A","B","C","D","E","F","G","H","I","J","K","L","M",
                "N","O","P","Q","R","S","T","U","V","W","X","Y","Z">>
LowerChars == <<"a","b","c","d","e","f","g","h","i","j","k","l","m",
                "n","o","p","q","r","s","t","u","v","w","x","y","z">>
DigitChars == <<"0","1","2","3","4","5","6","7","8","9">>
WhiteSpace == {" ", "\t", "\n", "\r"}

IndexIn(c, chars) ==
    IF \E i \in 1..Len(chars) : chars[i] = c
    THEN CHOOSE i \in 1..Len(chars) : chars[i] = c
    ELSE 0

\* String.prototype.toLowerCase
toLowerCase(s) ==
    [i \in 1..Len(s) |->
        IF IndexIn(s[i], UpperChars) > 0
        THEN LowerChars[IndexIn(s[i], UpperChars)]
        ELSE s[i]]

\* String.prototype.trim
trimNothing(s) == s
trim(s) ==
    LET keep == {i \in 1..Len(s) : s[i] \notin WhiteSpace}
    IN  IF keep = {} THEN <<>>
        ELSE LET lo == CHOOSE i \in keep : \A j \in keep : i <= j
                 hi == CHOOSE i \in keep : \A j \in keep : j <= i
             IN  SubSeq(s, lo, hi)

\* String.prototype.indexOf(sub) !== -1, and String.prototype.includes
includes(s, sub) ==
    \E i \in 1..(Len(s) - Len(sub) + 1) : SubSeq(s, i, i + Len(sub) - 1) = sub

\* String.prototype.endsWith
endsWith(s, sub) ==
    /\ Len(sub) <= Len(s)
    /\ SubSeq(s, Len(s) - Len(sub) + 1, Len(s)) = sub

\* String.prototype.split(sep) for a one-character separator
RECURSIVE SplitFrom(_, _, _, _)
SplitFrom(s, sep, i, cur) ==
    IF i > Len(s) THEN <<cur>>
    ELSE IF s[i] = sep THEN <<cur>> \o SplitFrom(s, sep, i + 1, <<>>)
    ELSE SplitFrom(s, sep, i + 1, Append(cur, s[i]))

split(s, sep) == SplitFrom(s, sep, 1, <<>>)

\* String.prototype.split(/\r?\n/): a "\r" is part of the separator only when a
\* "\n" follows it
RECURSIVE SplitLinesFrom(_, _, _)
SplitLinesFrom(s, i, cur) ==
    IF i > Len(s) THEN <<cur>>
    ELSE IF s[i] = "\n" THEN <<cur>> \o SplitLinesFrom(s, i + 1, <<>>)
    ELSE IF s[i] = "\r" /\ i < Len(s) /\ s[i + 1] = "\n"
         THEN <<cur>> \o SplitLinesFrom(s, i + 2, <<>>)
    ELSE SplitLinesFrom(s, i + 1, Append(cur, s[i]))

splitLines(s) == SplitLinesFrom(s, 1, <<>>)

(***************************************************************************)
(* Numbers                                                                 *)
(***************************************************************************)
WordBits == 32

NaN == [nan |-> TRUE, val |-> 0]
Num(n) == [nan |-> FALSE, val |-> n]

\* parseInt(s, 10) of a defined string: leading white space, an optional
\* sign, then the longest run of decimal digits; NaN when there is no digit
RECURSIVE DigitsValue(_, _, _)
DigitsValue(s, i, acc) ==
    IF i > Len(s) \/ IndexIn(s[i], DigitChars) = 0 THEN acc
    ELSE DigitsValue(s, i + 1, 10 * acc + (IndexIn(s[i], DigitChars) - 1))

RECURSIVE SkipWhiteSpace(_, _)
SkipWhiteSpace(s, i) ==
    IF i <= Len(s) /\ s[i] \in WhiteSpace THEN SkipWhiteSpace(s, i + 1) ELSE i

parseInt(s) ==
    LET i    == SkipWhiteSpace(s, 1)
        neg  == i <= Len(s) /\ s[i] = "-"
        j    == IF i <= Len(s) /\ s[i] \in {"-", "+"} THEN i + 1 ELSE i
    IN  IF j > Len(s) \/ IndexIn(s[j], DigitChars) = 0 THEN NaN
        ELSE Num(IF neg THEN 0 - DigitsValue(s, j, 0) ELSE DigitsValue(s, j, 0))

Pow2(k) == 2 ^ k

\* A 32-bit pattern is its four bytes, most significant first.
ZeroWord == <<0, 0, 0, 0>>
ByteAt(w, i) == IF i \in 1..4 THEN w[i] ELSE 0

\* ToInt32 of an integer in -2^31 .. 2^31-1 (two's complement)
BytesOf(v) == <<(v \div Pow2(24)) % 256, (v \div Pow2(16)) % 256, (v \div Pow2(8)) % 256, v % 256>>
ToInt32(v) ==
    IF v >= 0 THEN BytesOf(v)
    ELSE LET u == BytesOf((v + 2147483647) + 1)
         IN  <<u[1] + 128, u[2], u[3], u[4]>>

\* w << count: the count is taken modulo 32, vacated low bits are 0
Shl(w, count) ==
    LET k == count % WordBits
        q == k \div 8
        r == k % 8
    IN  [i \in 1..4 |->
            ((ByteAt(w, i + q) * Pow2(r)) % 256) + (ByteAt(w, i + q + 1) \div Pow2(8 - r))]

\* ~w
BitNot(w) == [i \in 1..4 |-> 255 - w[i]]

\* a & b
Bit(x, j) == (x \div Pow2(j)) % 2
And8(x, y) ==
    Bit(x, 7) * Bit(y, 7) * 128 + Bit(x, 6) * Bit(y, 6) * 64 +
    Bit(x, 5) * Bit(y, 5) * 32  + Bit(x, 4) * Bit(y, 4) * 16 +
    Bit(x, 3) * Bit(y, 3) * 8   + Bit(x, 2) * Bit(y, 2) * 4 +
    Bit(x, 1) * Bit(y, 1) * 2   + Bit(x, 0) * Bit(y, 0)
BitAnd(a, b) == [i \in 1..4 |-> And8(a[i], b[i])]

\* a + b on 32-bit patterns (the sum modulo 2^32)
Add32(a, b) ==
    LET s4 == a[4] + b[4]
        s3 == a[3] + b[3] + (s4 \div 256)
        s2 == a[2] + b[2] + (s3 \div 256)
        s1 == a[1] + b[1] + (s2 \div 256)
    IN  <<s1 % 256, s2 % 256, s3 % 256, s4 % 256>>

(***************************************************************************)
(* ipToInt and cidrContains (detect.js lines 47-57)                        *)
(***************************************************************************)
\* One step of the reduce: (acc << 8) + parseInt(oct, 10).  acc << 8 is an
\* int32; the sum is a double that is only ever read back through << or >>>,
\* that is, modulo 2^32, so it is kept as its 32-bit pattern.  A NaN sum
\* stays NaN until the next << (which turns it into 0).
ipToIntStep(acc, oct) ==
    LET shifted == Shl(IF acc.nan THEN ZeroWord ELSE acc.bits, 8)
        p       == parseInt(oct)
    IN  IF p.nan THEN [nan |-> TRUE, bits |-> ZeroWord]
        ELSE [nan |-> FALSE, bits |-> Add32(shifted, ToInt32(p.val))]

RECURSIVE ipToIntReduce(_, _, _)
ipToIntReduce(octs, i, acc) ==
    IF i > Len(octs) THEN acc
    ELSE ipToIntReduce(octs, i + 1, ipToIntStep(acc, octs[i]))

\* ip.split('.').reduce(..., 0) >>> 0: the uint32 with the same 32 bits
ipToInt(ip) ==
    LET r == ipToIntReduce(split(ip, "."), 1, [nan |-> FALSE, bits |-> ZeroWord])
    IN  IF r.nan THEN ZeroWord ELSE r.bits

\* (~0 << (32 - parseInt(mask, 10))) >>> 0; parseInt(undefined) is NaN, and a
\* NaN shift count is 0
maskShiftByLength(mask) ==
    LET p == IF mask.defined THEN parseInt(mask.value) ELSE NaN
    IN  IF p.nan THEN 0 ELSE p.val
maskShift(mask) ==
    LET p == IF mask.defined THEN parseInt(mask.value) ELSE NaN
    IN  IF p.nan THEN 0 ELSE WordBits - p.val

maskInt(mask) ==
    IF mask.defined /\ mask.value = <<>> THEN ZeroWord
    ELSE Shl(BitNot(ZeroWord), maskShift(mask))

cidrContains(cidr, ip) ==
    IF includes(cidr, <<":">>) THEN FALSE
    ELSE LET parts == split(cidr, "/")
             net   == parts[1]
             mask  == IF Len(parts) >= 2
                      THEN [defined |-> TRUE, value |-> parts[2]]
                      ELSE [defined |-> FALSE, value |-> <<>>]
         IN  BitAnd(ipToInt(net), maskInt(mask)) = BitAnd(ipToInt(ip), maskInt(mask))

NoCall == [net |-> <<>>, len |-> 0, ip |-> <<>>, cidr |-> <<>>, ipText |-> <<>>,
           returned |-> FALSE, result |-> FALSE]

(***************************************************************************)
(* JavaScript values read by line 5                                        *)
(***************************************************************************)
JsNull == [type |-> "null", str |-> <<>>, num |-> 0]
JsUndefined == [type |-> "undefined", str |-> <<>>, num |-> 0]
JsStr(s) == [type |-> "string", str |-> s, num |-> 0]
JsNum(n) == [type |-> "number", str |-> <<>>, num |-> n]

truthy(v) ==
    CASE v.type = "string" -> v.str # <<>>
      [] v.type = "number" -> v.num # 0
      [] OTHER -> FALSE

\* a || b
orElse(a, b) == IF truthy(a) THEN a ELSE b

\* url.searchParams.get('domain'): null when the parameter is not there
searchParamsGet(req) ==
    IF req.query.present THEN JsStr(req.query.value) ELSE JsNull

\* context.request.json().then(r=>r.domain).catch(()=>null): a body that does
\* not parse rejects, and so does reading .domain of a JSON null; both are
\* caught and give null
bodyDomain(req) ==
    IF req.body.parse = "object" THEN req.body.domain ELSE JsNull

\* searchParams.get('domain') || (await ...json()...) || ''
pickDomainBodyFirst(req) ==
    orElse(orElse(bodyDomain(req), searchParamsGet(req)), JsStr(<<>>))
pickDomain(req) ==
    orElse(orElse(searchParamsGet(req), bodyDomain(req)), JsStr(<<>>))

\* the right operand of the first || is evaluated only when the left is falsy
readsBody(req) == ~truthy(searchParamsGet(req))

\* if (!domain)
missingDomainNever(d) == FALSE
missingDomain(d) == d = <<>>

(***************************************************************************)
(* Responses and rejections                                                *)
(***************************************************************************)
Unset == [unset |-> TRUE]
NoResponse == [kind |-> "none"]
MissingDomainResponse ==
    [kind |-> "response", status |-> 400, body |-> [error |-> "Missing domain"]]
ReportResponse(inf) == [kind |-> "response", status |-> 200, body |-> inf]
Rejection(where) == [kind |-> "exception", at |-> where]

(***************************************************************************)
(* doh (lines 9-14) and what lines 18 and 22 read from its result          *)
(***************************************************************************)
ATYPE == 1

JsonNull == [null |-> TRUE, hasAnswer |-> FALSE, Answer |-> <<>>]

\* reply.net = "error": fetch rejects; otherwise reply.ok is r.ok and
\* reply.json the parsed body
dohThrowsOnStatus(reply) ==
    IF reply.net = "error" \/ ~reply.ok THEN [threw |-> TRUE, value |-> JsonNull]
    ELSE [threw |-> FALSE, value |-> reply.json]
doh(reply) ==
    IF reply.net = "error" THEN [threw |-> TRUE, value |-> JsonNull]
    ELSE IF ~reply.ok THEN [threw |-> FALSE, value |-> JsonNull]
    ELSE [threw |-> FALSE, value |-> reply.json]

MapData(answers) == [i \in 1..Len(answers) |-> answers[i].data]

\* (aJson && aJson.Answer) ? aJson.Answer.filter(a=>a.type===1).map(a=>a.data) : []
ipv4Of(json) ==
    IF ~json.null /\ json.hasAnswer
    THEN MapData(SelectSeq(json.Answer, LAMBDA a : a.type = ATYPE))
    ELSE <<>>

\* s.replace(/\.$/, '')
dropTrailingDot(s) ==
    IF Len(s) > 0 /\ s[Len(s)] = "." THEN SubSeq(s, 1, Len(s) - 1) ELSE s

\* (nsJson && nsJson.Answer) ? nsJson.Answer.map(a=>a.data.replace(/\.$/,'').toLowerCase()) : []
nameserversOf(json) ==
    IF ~json.null /\ json.hasAnswer
    THEN [i \in 1..Len(json.Answer) |-> toLowerCase(dropTrailingDot(json.Answer[i].data))]
    ELSE <<>>

(***************************************************************************)
(* tryFetch (lines 26-37) and the fallback test of line 39                 *)
(***************************************************************************)
InterestingHeaders == {"server", "cf-ray", "cf-cache-status", "via", "x-powered-by"}

\* reply.net = "error": fetch rejects and the catch returns {ok:false, error};
\* otherwise h keeps the listed headers whose value is a non-empty string
tryFetch(reply) ==
    IF reply.net = "error" THEN [ok |-> FALSE, error |-> reply.message]
    ELSE [ok |-> TRUE, status |-> reply.status,
          headers |-> [k \in {n \in InterestingHeaders \cap DOMAIN reply.headers :
                                  reply.headers[n] # <<>>} |-> reply.headers[k]]]

\* if (!httpInfo.ok)
needsFallbackAlways(info) == TRUE
needsFallback(info) == ~info.ok

(***************************************************************************)
(* Lines 44-78: ranges, membership, indicators, inference                  *)
(***************************************************************************)
\* cfV4txt.split(/\r?\n/).concat(cfV6txt.split(/\r?\n/)).filter(Boolean)
cfRanges(v4txt, v6txt) ==
    SelectSeq(splitLines(v4txt) \o splitLines(v6txt), LAMBDA l : l # <<>>)

\* ipv4.filter(ip => cfRanges.some(r => cidrContains(r, ip)))
ipsBehindCF(ips, ranges) ==
    SelectSeq(ips, LAMBDA ip : \E i \in 1..Len(ranges) : cidrContains(ranges[i], ip))

\* nameservers.some(ns => ns.endsWith('ns.cloudflare.com') || ns.includes('cloudflare'))
nsUsesCloudflare(ns) ==
    \E i \in 1..Len(ns) :
        \/ endsWith(ns[i], <<"n", "s", ".", "c", "l", "o", "u", "d", "f", "l", "a", "r", "e", ".", "c", "o", "m">>)
        \/ includes(ns[i], <<"c", "l", "o", "u", "d", "f", "l", "a", "r", "e">>)

\* lines 64-67; reading httpInfo.headers['server'] throws a TypeError when
\* httpInfo has no headers property (the {ok:false, error} of a failed probe)
headerIndications(info) ==
    IF "headers" \notin DOMAIN info THEN [threw |-> TRUE, hints |-> <<>>]
    ELSE LET h == info.headers
             has(k) == k \in DOMAIN h
         IN  [threw |-> FALSE,
              hints |->
                (IF has("server") /\ includes(toLowerCase(h["server"]), <<"c", "l", "o", "u", "d", "f", "l", "a", "r", "e">>)
                 THEN <<"server: cloudflare">> ELSE <<>>)
                \o (IF has("cf-ray") THEN <<"cf-ray header present">> ELSE <<>>)
                \o (IF has("cf-cache-status")
                    THEN <<"cf-cache-status header present">> ELSE <<>>)]

\* nsUsesCloudflare || headerIndications.length>0 || ipsBehindCF.length>0
likelyIgnoringHeaders(nsUses, hints, behind) == nsUses \/ Len(behind) > 0
likely(nsUses, hints, behind) == nsUses \/ Len(hints) > 0 \/ Len(behind) > 0

\* lines 70-78
inference(d, ips, ns, hints, v4txt, v6txt) ==
    LET behind == ipsBehindCF(ips, cfRanges(v4txt, v6txt))
        nsUses == nsUsesCloudflare(ns)
    IN  [domain |-> d,
         resolved_ips |-> ips,
         nameservers |-> ns,
         headerHints |-> hints,
         ips_in_cloudflare_ranges |-> behind,
         ns_using_cloudflare |-> nsUses,
         likely_using_cloudflare |-> likely(nsUses, hints, behind)]

\* lines 44-82, run without suspension once cfV6txt is there
finish(d, ips, ns, info, v4txt, v6txt) ==
    LET ind == headerIndications(info)
    IN  IF ind.threw THEN Rejection("headerIndications")
        ELSE ReportResponse(inference(d, ips, ns, ind.hints, v4txt, v6txt))

(***************************************************************************)
(* The requests and the replies of the outside world that are explored     *)
(***************************************************************************)
MaxDomainLen == 2
DomainChars == {"A", " "}

RECURSIVE StringsUpTo(_)
StringsUpTo(n) ==
    IF n = 0 THEN {<<>>}
    ELSE StringsUpTo(n - 1) \cup
         {Append(s, c) : s \in {t \in StringsUpTo(n - 1) : Len(t) = n - 1}, c \in DomainChars}

DomainTexts == StringsUpTo(MaxDomainLen)

Queries == {[present |-> FALSE, value |-> <<>>]} \cup
           {[present |-> TRUE, value |-> s] : s \in DomainTexts}

Bodies == {[parse |-> "fails", domain |-> JsUndefined],
           [parse |-> "null", domain |-> JsUndefined],
           [parse |-> "object", domain |-> JsUndefined],
           [parse |-> "object", domain |-> JsNum(5)]} \cup
          {[parse |-> "object", domain |-> JsStr(s)] : s \in DomainTexts}

Requests == {[query |-> q, body |-> b] : q \in Queries, b \in Bodies}

FetchError == [net |-> "error", message |-> "TypeError: fetch failed"]

DohAnswersA == {
    <<[type |-> 1, data |-> <<"1", "0", "4", ".", "1", "6", ".", "1", ".", "1">>]>>,
    <<[type |-> 5, data |-> <<"e", "d", "g", "e", ".", "e", "x", "a", "m", "p", "l", "e", ".", "n", "e", "t", ".">>], [type |-> 1, data |-> <<"1", "9", "2", ".", "0", ".", "2", ".", "7">>]>> }

DohAnswersNS == {
    <<[type |-> 2, data |-> <<"A", "d", "a", ".", "N", "S", ".", "C", "l", "o", "u", "d", "f", "l", "a", "r", "e", ".", "c", "o", "m", ".">>]>>,
    <<[type |-> 2, data |-> <<"n", "s", "1", ".", "e", "x", "a", "m", "p", "l", "e", ".", "c", "o", "m", ".">>]>> }

DohReplies(answers) ==
    {FetchError,
     [net |-> "ok", ok |-> FALSE, json |-> JsonNull],
     [net |-> "ok", ok |-> TRUE, json |-> [null |-> FALSE, hasAnswer |-> FALSE, Answer |-> <<>>]]}
    \cup {[net |-> "ok", ok |-> TRUE, json |-> [null |-> FALSE, hasAnswer |-> TRUE, Answer |-> a]] :
            a \in answers}

Pair(k, v) == [x \in {k} |-> v]

ProbeReplies == {
    FetchError,
    [net |-> "ok", status |-> 200, headers |-> Pair("date", <<"n", "o", "w">>)],
    [net |-> "ok", status |-> 301, headers |-> Pair("server", <<"C", "l", "o", "u", "d", "f", "l", "a", "r", "e">>) @@ Pair("date", <<"n", "o", "w">>)],
    [net |-> "ok", status |-> 200, headers |-> Pair("server", <<"n", "g", "i", "n", "x">>) @@ Pair("cf-cache-status", <<>>)],
    [net |-> "ok", status |-> 403, headers |-> Pair("server", <<"c", "l", "o", "u", "d", "f", "l", "a", "r", "e">>) @@ Pair("cf-ray", <<"8", "f", "2", "-", "S", "I", "N">>)
                                                @@ Pair("cf-cache-status", <<"H", "I", "T">>)] }

RangeRepliesV4 == {
    FetchError,
    [net |-> "ok", text |-> <<"1", "7", "3", ".", "2", "4", "5", ".", "4", "8", ".", "0", "/", "2", "0", "\n", "1", "0", "4", ".", "1", "6", ".", "0", ".", "0", "/", "1", "3", "\r", "\n", "\n">>] }

RangeRepliesV6 == {
    FetchError,
    [net |-> "ok", text |-> <<"2", "4", "0", "0", ":", "c", "b", "0", "0", ":", ":", "/", "3", "2", "\n">>] }

ReplyTag(reply) ==
    IF reply.net = "error" THEN "error"
    ELSE IF "ok" \in DOMAIN reply /\ ~reply.ok THEN "non-ok"
    ELSE "ok"

(***************************************************************************)
(* onRequest (lines 3-83), one action per step between two awaits          *)
(***************************************************************************)
handlerVars == <<request, pc, domain, bodyRead, aJson, ipv4, nsJson, nameservers,
                 httpInfo, cfV4txt, cfV6txt, response, calls, inflight, replies, probes>>

HandlerIdle ==
    /\ domain = <<>>
    /\ bodyRead = FALSE
    /\ aJson = Unset
    /\ ipv4 = <<>>
    /\ nsJson = Unset
    /\ nameservers = <<>>
    /\ httpInfo = Unset
    /\ cfV4txt = <<>>
    /\ cfV6txt = <<>>
    /\ response = NoResponse
    /\ calls = <<>>
    /\ inflight = {}
    /\ replies = <<>>
    /\ probes = <<>>

\* fetch(...) is called and the handler suspends until it settles
Issue(step, call) ==
    /\ pc = step
    /\ calls' = Append(calls, call)
    /\ inflight' = inflight \cup {Len(calls) + 1}
    /\ pc' = step \o "_wait"

\* the fetch the handler is suspended on settles with reply
Settle(step, reply) ==
    /\ pc = step \o "_wait"
    /\ inflight' = inflight \ {Len(calls)}
    /\ replies' = Append(replies, ReplyTag(reply))
    /\ calls' = calls

\* the handler settles: with a Response, or rejected
Return(r) ==
    /\ response' = r
    /\ pc' = "done"

\* lines 4-6
ExtractDomain ==
    /\ pc = "start"
    /\ bodyRead' = readsBody(request)
    /\ LET v == pickDomain(request)
       IN  IF v.type # "string"
           THEN /\ Return(Rejection("trim"))
                /\ domain' = domain
           ELSE /\ domain' = toLowerCase(trim(v.str))
                /\ IF missingDomain(domain')
                   THEN Return(MissingDomainResponse)
                   ELSE pc' = "dohA" /\ response' = response
    /\ UNCHANGED <<request, aJson, ipv4, nsJson, nameservers, httpInfo, cfV4txt, cfV6txt,
                   calls, inflight, replies, probes, cidrCall>>

\* line 17 (line 11 inside doh)
DohAIssue ==
    /\ Issue("dohA", [kind |-> "doh", name |-> domain, type |-> "A"])
    /\ UNCHANGED <<request, domain, bodyRead, aJson, ipv4, nsJson, nameservers, httpInfo,
                   cfV4txt, cfV6txt, response, replies, probes, cidrCall>>

\* lines 12-13, 17-18
DohASettle ==
    /\ \E reply \in DohReplies(DohAnswersA) :
         /\ Settle("dohA", reply)
         /\ LET r == doh(reply)
            IN  IF r.threw
                THEN Return(Rejection("dohA")) /\ UNCHANGED <<aJson, ipv4>>
                ELSE /\ aJson' = r.value
                     /\ ipv4' = ipv4Of(r.value)
                     /\ pc' = "dohNS"
                     /\ response' = response
    /\ UNCHANGED <<request, domain, bodyRead, nsJson, nameservers, httpInfo,
                   cfV4txt, cfV6txt, probes, cidrCall>>

\* line 21 (line 11 inside doh)
DohNSIssue ==
    /\ Issue("dohNS", [kind |-> "doh", name |-> domain, type |-> "NS"])
    /\ UNCHANGED <<request, domain, bodyRead, aJson, ipv4, nsJson, nameservers, httpInfo,
                   cfV4txt, cfV6txt, response, replies, probes, cidrCall>>

\* lines 12-13, 21-22
DohNSSettle ==
    /\ \E reply \in DohReplies(DohAnswersNS) :
         /\ Settle("dohNS", reply)
         /\ LET r == doh(reply)
            IN  IF r.threw
                THEN Return(Rejection("dohNS")) /\ UNCHANGED <<nsJson, nameservers>>
                ELSE /\ nsJson' = r.value
                     /\ nameservers' = nameserversOf(r.value)
                     /\ pc' = "https"
                     /\ response' = response
    /\ UNCHANGED <<request, domain, bodyRead, aJson, ipv4, httpInfo,
                   cfV4txt, cfV6txt, probes, cidrCall>>

\* line 38 (line 28 inside tryFetch)
HttpsIssue ==
    /\ Issue("https", [kind |-> "head", name |-> domain, type |-> "https"])
    /\ UNCHANGED <<request, domain, bodyRead, aJson, ipv4, nsJson, nameservers, httpInfo,
                   cfV4txt, cfV6txt, response, replies, probes, cidrCall>>

\* lines 29-36, 38-39
HttpsSettle ==
    /\ \E reply \in ProbeReplies :
         /\ Settle("https", reply)
         /\ httpInfo' = tryFetch(reply)
         /\ probes' = Append(probes, httpInfo')
         /\ pc' = IF needsFallback(httpInfo') THEN "http" ELSE "v4"
    /\ UNCHANGED <<request, domain, bodyRead, aJson, ipv4, nsJson, nameservers,
                   cfV4txt, cfV6txt, response, cidrCall>>

\* line 39 (line 28 inside tryFetch)
HttpIssue ==
    /\ Issue("http", [kind |-> "head", name |-> domain, type |-> "http"])
    /\ UNCHANGED <<request, domain, bodyRead, aJson, ipv4, nsJson, nameservers, httpInfo,
                   cfV4txt, cfV6txt, response, replies, probes, cidrCall>>

\* lines 29-36, 39
HttpSettle ==
    /\ \E reply \in ProbeReplies :
         /\ Settle("http", reply)
         /\ httpInfo' = tryFetch(reply)
         /\ probes' = Append(probes, httpInfo')
         /\ pc' = "v4"
    /\ UNCHANGED <<request, domain, bodyRead, aJson, ipv4, nsJson, nameservers,
                   cfV4txt, cfV6txt, response, cidrCall>>

\* line 42
V4Issue ==
    /\ Issue("v4", [kind |-> "get", name |-> <<"w", "w", "w", ".", "c", "l", "o", "u", "d", "f", "l", "a", "r", "e", ".", "c", "o", "m">>, type |-> "ips-v4"])
    /\ UNCHANGED <<request, domain, bodyRead, aJson, ipv4, nsJson, nameservers, httpInfo,
                   cfV4txt, cfV6txt, response, replies, probes, cidrCall>>

\* line 42: a rejected fetch is not caught
V4Settle ==
    /\ \E reply \in RangeRepliesV4 :
         /\ Settle("v4", reply)
         /\ IF reply.net = "error"
            THEN Return(Rejection("v4")) /\ cfV4txt' = cfV4txt
            ELSE cfV4txt' = reply.text /\ pc' = "v6" /\ response' = response
    /\ UNCHANGED <<request, domain, bodyRead, aJson, ipv4, nsJson, nameservers, httpInfo,
                   cfV6txt, probes, cidrCall>>

\* line 43
V6IssueWhileV4InFlight ==
    /\ pc = "v4_wait"
    /\ calls' = Append(calls, [kind |-> "get", name |-> <<"w", "w", "w", ".", "c", "l", "o", "u", "d", "f", "l", "a", "r", "e", ".", "c", "o", "m">>, type |-> "ips-v6"])
    /\ inflight' = inflight \cup {Len(calls) + 1}
    /\ pc' = "v6_wait"
    /\ UNCHANGED <<request, domain, bodyRead, aJson, ipv4, nsJson, nameservers, httpInfo,
                   cfV4txt, cfV6txt, response, replies, probes, cidrCall>>
V6Issue ==
    /\ Issue("v6", [kind |-> "get", name |-> <<"w", "w", "w", ".", "c", "l", "o", "u", "d", "f", "l", "a", "r", "e", ".", "c", "o", "m">>, type |-> "ips-v6"])
    /\ UNCHANGED <<request, domain, bodyRead, aJson, ipv4, nsJson, nameservers, httpInfo,
                   cfV4txt, cfV6txt, response, replies, probes, cidrCall>>

\* lines 43-82: a rejected fetch is not caught; otherwise the rest of the
\* handler runs to its return (or to the TypeError of line 65)
V6Settle ==
    /\ \E reply \in RangeRepliesV6 :
         /\ Settle("v6", reply)
         /\ IF reply.net = "error"
            THEN Return(Rejection("v6")) /\ cfV6txt' = cfV6txt
            ELSE /\ cfV6txt' = reply.text
                 /\ Return(finish(domain, ipv4, nameservers, httpInfo, cfV4txt, cfV6txt'))
    /\ UNCHANGED <<request, domain, bodyRead, aJson, ipv4, nsJson, nameservers, httpInfo,
                   cfV4txt, probes, cidrCall>>

Init ==
    /\ request \in Requests
    /\ pc = "start"
    /\ HandlerIdle
    /\ cidrCall = NoCall

Next ==
    \/ ExtractDomain
    \/ DohAIssue
    \/ DohASettle
    \/ DohNSIssue
    \/ DohNSSettle
    \/ HttpsIssue
    \/ HttpsSettle
    \/ HttpIssue
    \/ HttpSettle
    \/ V4Issue
    \/ V4Settle
    \/ V6Issue
    \/ V6Settle

vars == <<request, pc, domain, bodyRead, aJson, ipv4, nsJson, nameservers, httpInfo,
          cfV4txt, cfV6txt, response, calls, inflight, replies, probes, cidrCall>>

Spec == Init /\ [][Next]_vars

(***************************************************************************)
(* cidrContains on generated arguments                                     *)
(***************************************************************************)
AddressSamples == << <<0, 0, 0, 0>>, <<255, 255, 255, 255>>, <<104, 16, 1, 1>>,
                     <<128, 0, 0, 1>>, <<127, 255, 255, 254>>, <<192, 168, 100, 200>>,
                     <<10, 20, 30, 40>>, <<203, 0, 113, 77>> >>
NumAddressSamples == 6
Networks == {AddressSamples[i] : i \in 1..NumAddressSamples}
PrefixLengths == 0..WordBits

\* bit i (1 = most significant) of the address with these four octets
AddressBit(a, i) == (a[((i - 1) \div 8) + 1] \div Pow2(7 - ((i - 1) % 8))) % 2

\* the address that differs from a in bit i alone
FlipBit(a, i) ==
    [k \in 1..4 |->
        IF k # ((i - 1) \div 8) + 1 THEN a[k]
        ELSE IF AddressBit(a, i) = 1 THEN a[k] - Pow2(7 - ((i - 1) % 8))
        ELSE a[k] + Pow2(7 - ((i - 1) % 8))]

\* the candidates tried against a network: every sample, and every address one
\* bit away from the network
Candidates(net) == Networks \cup {FlipBit(net, i) : i \in 1..WordBits}

\* decimal text of a natural number
RECURSIVE FormatDec(_)
FormatDec(n) ==
    IF n < 10 THEN <<DigitChars[n + 1]>>
    ELSE Append(FormatDec(n \div 10), DigitChars[(n % 10) + 1])

FormatIp(a) ==
    FormatDec(a[1]) \o <<".">> \o FormatDec(a[2]) \o <<".">> \o
    FormatDec(a[3]) \o <<".">> \o FormatDec(a[4])

FormatCidr(net, len) == FormatIp(net) \o <<"/">> \o FormatDec(len)

CidrInit ==
    /\ request = [query |-> [present |-> FALSE, value |-> <<>>],
                  body |-> [parse |-> "fails", domain |-> JsUndefined]]
    /\ pc = "idle"
    /\ HandlerIdle
    /\ \E net \in Networks, len \in PrefixLengths :
         \E ip \in Candidates(net) :
            cidrCall = [net |-> net, len |-> len, ip |-> ip,
                        cidr |-> FormatCidr(net, len), ipText |-> FormatIp(ip),
                        returned |-> FALSE, result |-> FALSE]

ApplyCidrContains ==
    /\ pc = "idle"
    /\ ~cidrCall.returned
    /\ cidrCall' = [cidrCall EXCEPT !.returned = TRUE,
                                    !.result = cidrContains(cidrCall.cidr, cidrCall.ipText)]
    /\ UNCHANGED handlerVars

CidrNext == ApplyCidrContains

SpecCidr == CidrInit /\ [][CidrNext]_vars

(***************************************************************************)
(* What the properties below read from a state                             *)
(***************************************************************************)
CallPos(kind, type) ==
    IF \E i \in 1..Len(calls) : calls[i].kind = kind /\ calls[i].type = type
    THEN CHOOSE i \in 1..Len(calls) : calls[i].kind = kind /\ calls[i].type = type
    ELSE 0

\* how the fetch of that call ended: "error", "non-ok", "ok", or "pending"
\* while it has not settled or was never issued
Outcome(kind, type) ==
    IF CallPos(kind, type) \in 1..Len(replies) THEN replies[CallPos(kind, type)]
    ELSE "pending"

IsReport == response.kind = "response" /\ response.status = 200
IsRejection == response.kind = "exception"

IsBlank(s) == \A i \in 1..Len(s) : s[i] \in WhiteSpace
Normalized(s) == toLowerCase(trim(s))

\* a string that is non-empty, has no white space at either end and no
\* upper-case letter
IsCleanDomain(s) ==
    /\ Len(s) > 0
    /\ s[1] \notin WhiteSpace
    /\ s[Len(s)] \notin WhiteSpace
    /\ \A i \in 1..Len(s) : IndexIn(s[i], UpperChars) = 0

QueryGiven == request.query.present /\ request.query.value # <<>>
BodyGivesString == request.body.parse = "object" /\ request.body.domain.type = "string"

(***************************************************************************)
(* C1                                                                      *)
(***************************************************************************)
\* C1: a failed probe never aborts the request: when the domain has no A and
\* no NS answers, the HEAD probe fails on https and on http, and both range
\* lists are fetched, onRequest completes with a 200 report whose
\* resolved_ips, nameservers and headerHints are empty and whose
\* likely_using_cloudflare is false.
C1_ProbeFailureStillReports ==
    ( /\ pc = "done"
      /\ Outcome("doh", "A") = "ok" /\ ipv4 = <<>>
      /\ Outcome("doh", "NS") = "ok" /\ nameservers = <<>>
      /\ Outcome("head", "https") = "error"
      /\ Outcome("head", "http") = "error"
      /\ Outcome("get", "ips-v4") = "ok"
      /\ Outcome("get", "ips-v6") = "ok" )
    => ( /\ IsReport
         /\ response.body.resolved_ips = <<>>
         /\ response.body.nameservers = <<>>
         /\ response.body.headerHints = <<>>
         /\ response.body.likely_using_cloudflare = FALSE )

(***************************************************************************)
(* C2                                                                      *)
(***************************************************************************)
\* C2: for every IPv4 address ip, cidrContains("0.0.0.0/0", ip) is true.
C2_ZeroPrefixContainsAll ==
    (cidrCall.returned /\ cidrCall.len = 0 /\ cidrCall.net = <<0, 0, 0, 0>>)
        => cidrCall.result

(***************************************************************************)
(* C3                                                                      *)
(***************************************************************************)
\* the domain text the request supplies, as [given, text]: the query
\* parameter's value when it is a non-empty string, else the body's domain
\* field when the body parses to an object that has one
SuppliedDomain ==
    IF QueryGiven THEN [given |-> TRUE, text |-> request.query.value]
    ELSE IF BodyGivesString THEN [given |-> TRUE, text |-> request.body.domain.str]
    ELSE [given |-> FALSE, text |-> <<>>]

SuppliesNothing ==
    /\ ~(request.body.parse = "object" /\ request.body.domain.type = "number" /\ ~QueryGiven)
    /\ (~SuppliedDomain.given \/ IsBlank(SuppliedDomain.text))

\* C3: every request whose domain input is absent, empty or white space only
\* is answered with HTTP 400 and the body {"error":"Missing domain"}.
C3_BlankDomainIs400 ==
    (pc # "start" /\ SuppliesNothing)
        => ( /\ pc = "done"
             /\ response.kind = "response"
             /\ response.status = 400
             /\ response.body = [error |-> "Missing domain"] )

C3_Witness ==
    /\ pc = "done"
    /\ request.query.present
    /\ request.query.value # <<>>
    /\ IsBlank(request.query.value)
    /\ BodyGivesString
    /\ ~IsBlank(request.body.domain.str)
    /\ response = MissingDomainResponse

(***************************************************************************)
(* C4                                                                      *)
(***************************************************************************)
\* C4: in every success report likely_using_cloudflare is true exactly when
\* ns_using_cloudflare is true, or headerHints is non-empty, or
\* ips_in_cloudflare_ranges is non-empty.
C4_LikelyIsTheDisjunction ==
    IsReport =>
        ( response.body.likely_using_cloudflare
            <=> ( \/ response.body.ns_using_cloudflare
                  \/ response.body.headerHints # <<>>
                  \/ response.body.ips_in_cloudflare_ranges # <<>> ) )

\* a report whose only evidence is a header
C4_Witness ==
    /\ IsReport
    /\ response.body.headerHints # <<>>
    /\ ~response.body.ns_using_cloudflare
    /\ response.body.ips_in_cloudflare_ranges = <<>>
    /\ response.body.resolved_ips # <<>>
    /\ response.body.likely_using_cloudflare

(***************************************************************************)
(* C5                                                                      *)
(***************************************************************************)
SomeProbeOk == \E i \in 1..Len(probes) : probes[i].ok

\* C5: a non-success status from the DoH endpoint is no data, not an error:
\* doh returns null, the list read from it is empty, the handler does not
\* reject at the query, and when both queries end that way and the later
\* steps succeed the handler returns a report whose resolved_ips and
\* nameservers are empty.
C5_ResolverFailureIsNoData ==
    /\ Outcome("doh", "A") = "non-ok"
         => ( /\ aJson = JsonNull
              /\ ipv4 = <<>>
              /\ pc # "dohA_wait"
              /\ ~(IsRejection /\ response.at = "dohA") )
    /\ Outcome("doh", "NS") = "non-ok"
         => ( /\ nsJson = JsonNull
              /\ nameservers = <<>>
              /\ pc # "dohNS_wait"
              /\ ~(IsRejection /\ response.at = "dohNS") )
    /\ ( /\ Outcome("doh", "A") = "non-ok"
         /\ Outcome("doh", "NS") = "non-ok"
         /\ pc = "done"
         /\ SomeProbeOk
         /\ Outcome("get", "ips-v4") = "ok"
         /\ Outcome("get", "ips-v6") = "ok" )
         => ( /\ IsReport
              /\ response.body.resolved_ips = <<>>
              /\ response.body.nameservers = <<>> )

C5_Witness ==
    /\ Outcome("doh", "A") = "non-ok"
    /\ Outcome("doh", "NS") = "non-ok"
    /\ IsReport
    /\ response.body.resolved_ips = <<>>
    /\ response.body.nameservers = <<>>

(***************************************************************************)
(* C6                                                                      *)
(***************************************************************************)
Heads == SelectSeq(calls, LAMBDA c : c.kind = "head")
PastProbes == pc \in {"v4", "v4_wait", "v6", "v6_wait"} \/ CallPos("get", "ips-v4") > 0

\* C6: the https probe is issued first; the http probe is issued if and only
\* if the https attempt returned ok = false, and only after it settled; there
\* are never more than two attempts; a successful https result is never
\* replaced.
C6_ProbePolicy ==
    /\ Len(Heads) <= 2
    /\ Len(Heads) >= 1 => Heads[1].type = "https"
    /\ Len(Heads) = 2
         => ( /\ Heads[2].type = "http"
              /\ Outcome("head", "https") # "pending"
              /\ CallPos("head", "https") \notin inflight
              /\ Len(probes) >= 1
              /\ ~probes[1].ok )
    /\ (Len(probes) >= 1 /\ probes[1].ok)
         => ( /\ Len(Heads) = 1
              /\ Len(probes) = 1
              /\ httpInfo = probes[1]
              /\ pc # "http" )
    /\ PastProbes
         => ( /\ Len(probes) = Len(Heads)
              /\ Len(Heads) = 2 <=> ~probes[1].ok
              /\ httpInfo = probes[Len(probes)] )

\* the fallback happened: https failed, http answered, and the handler went on
C6_Witness ==
    /\ pc = "done"
    /\ Len(Heads) = 2
    /\ Len(probes) = 2
    /\ ~probes[1].ok
    /\ probes[2].ok
    /\ httpInfo = probes[2]

(***************************************************************************)
(* C7                                                                      *)
(***************************************************************************)
\* C7 as stated: whenever the request carries a domain query parameter, its
\* value is the domain used and the body is not consulted; the body field is
\* used only when the query parameter is not present; a body that does not
\* parse is an absent domain and leads to the 400 response.
C7_QueryWinsWhenPresent ==
    pc # "start"
        => ( /\ request.query.present
                  => (~bodyRead /\ domain = Normalized(request.query.value))
             /\ bodyRead => ~request.query.present
             /\ (~request.query.present /\ request.body.parse = "fails")
                  => response = MissingDomainResponse )

\* C7 amended: whenever the request carries a non-empty domain query
\* parameter, its value is the domain used and the body is not consulted; the
\* body is consulted exactly when the query parameter is absent or empty, and
\* then its domain field is the domain used; a body that does not parse is an
\* absent domain and leads to the 400 response.
C7_NonEmptyQueryWins ==
    pc # "start"
        => ( /\ QueryGiven => (~bodyRead /\ domain = Normalized(request.query.value))
             /\ bodyRead <=> ~QueryGiven
             /\ (~QueryGiven /\ BodyGivesString)
                  => domain = Normalized(request.body.domain.str)
             /\ (~QueryGiven /\ request.body.parse = "fails")
                  => response = MissingDomainResponse )

\* an empty query parameter beside a body that names a domain
C7_Witness ==
    /\ pc # "start"
    /\ request.query.present
    /\ request.query.value = <<>>
    /\ BodyGivesString
    /\ bodyRead
    /\ domain # <<>>
    /\ domain = Normalized(request.body.domain.str)

(***************************************************************************)
(* C8                                                                      *)
(***************************************************************************)
AgreeOnPrefix(a, b, len) == \A i \in 1..len : AddressBit(a, i) = AddressBit(b, i)

\* C8: for every address ip, network address net and prefix length len in
\* 1..32, cidrContains(net/len, ip) is true exactly when ip and net agree on
\* their most significant len bits; so ip is always contained in ip/32.
C8_PrefixMatch ==
    (cidrCall.returned /\ cidrCall.len >= 1)
        => (cidrCall.result <=> AgreeOnPrefix(cidrCall.ip, cidrCall.net, cidrCall.len))

\* a network whose first octet is at least 128, and a candidate that differs
\* from it in the last bit the prefix covers: not contained
C8_Witness ==
    /\ cidrCall.returned
    /\ cidrCall.len = 9
    /\ cidrCall.net[1] >= 128
    /\ cidrCall.ip = FlipBit(cidrCall.net, 9)
    /\ ~cidrCall.result

(***************************************************************************)
(* C9                                                                      *)
(***************************************************************************)
CallOrder == <<"A", "NS", "https", "http", "ips-v4", "ips-v6">>
Rank(call) == IndexIn(call.type, CallOrder)

\* C9: no two outbound calls are in flight at once; they are issued in the
\* order DoH A, DoH NS, https probe, (http probe), IPv4 list, IPv6 list; each
\* starts only after the previous one settled; the report is built only after
\* the last one settled.
C9_OneCallAtATime ==
    /\ Cardinality(inflight) <= 1
    /\ inflight \subseteq {Len(calls)}
    /\ Len(replies) = Len(calls) - Cardinality(inflight)
    /\ Len(calls) >= 1 => Rank(calls[1]) = 1
    /\ \A i \in 1..(Len(calls) - 1) :
         \/ Rank(calls[i + 1]) = Rank(calls[i]) + 1
         \/ Rank(calls[i]) = 3 /\ Rank(calls[i + 1]) = 5
    /\ IsReport
         => ( /\ inflight = {}
              /\ Len(calls) >= 5
              /\ Rank(calls[Len(calls)]) = 6
              /\ Len(replies) = Len(calls) )

\* a report after all six calls
C9_Witness ==
    /\ IsReport
    /\ Len(calls) = 6
    /\ Len(replies) = 6

(***************************************************************************)
(* C10                                                                     *)
(***************************************************************************)
\* C10: an invocation that ends with the 400 response has issued no outbound
\* call, and every outbound call is issued with a non-empty, trimmed,
\* lower-case domain.
C10_NoCallWithoutDomain ==
    /\ (response.kind = "response" /\ response.status = 400)
         => (calls = <<>> /\ inflight = {} /\ pc = "done")
    /\ calls # <<>>
         => ( /\ IsCleanDomain(domain)
              /\ \A i \in 1..Len(calls) :
                   calls[i].kind \in {"doh", "head"} => calls[i].name = domain )

\* a domain that needed trimming and lower-casing went out on the probe
C10_Witness ==
    /\ CallPos("head", "https") > 0
    /\ ~IsCleanDomain(SuppliedDomain.text)
    /\ IsCleanDomain(calls[CallPos("head", "https")].name)
=============================================================================
